---- MODULE Spec2Model ----
(***************************************************************************)
(* Financial Buddy (src/app.py): a Streamlit script with three tabs, a SIP *)
(* calculator, a budgeting tool and a quiz.  The script is re-executed     *)
(* from the top on every user interaction; only st.session_state and the   *)
(* widget values survive a re-execution.                                   *)
(*                                                                         *)
(* Python floats are IEEE-754 binary64 values.  They are modelled exactly: *)
(* a float is a sign, a 53-bit mantissa and an exponent, and every         *)
(* operation rounds its exact result the way the hardware does.  The       *)
(* mantissas do not fit the integers of the model checker, so naturals of  *)
(* arbitrary size are kept as little-endian sequences of 15-bit limbs.     *)
(***************************************************************************)
EXTENDS Integers, Sequences, FiniteSets

(***************************************************************************)
(* Arbitrary-size naturals: little-endian sequences of limbs in            *)
(* 0..Base-1 with no leading zero limb; zero is the empty sequence.        *)
(* Carries are swept through the limbs by halving the range, which keeps   *)
(* the evaluation shallow for numbers of a hundred limbs and more.         *)
(***************************************************************************)
LimbBits == 15

Base == 32768

RECURSIVE Pow2(_)
Pow2(k) == IF k = 0 THEN 1 ELSE 2 * Pow2(k - 1)

Limb(a, i) == IF i <= Len(a) THEN a[i] ELSE 0

MaxOf(S) == CHOOSE i \in S : \A j \in S : j <= i

HighestLimb(a) == MaxOf({0} \cup {i \in 1..Len(a) : a[i] # 0})

\* a without its leading zero limbs
BTrim(a) == SubSeq(a, 1, HighestLimb(a))

RECURSIVE BFromInt(_)
BFromInt(n) == IF n = 0 THEN << >> ELSE <<n % Base>> \o BFromInt(n \div Base)

RECURSIVE BToInt(_)
BToInt(a) == IF a = << >> THEN 0 ELSE a[1] + Base * BToInt(Tail(a))

\* one limb and the carry out of the value v of a limb position
Digit(v) == [d |-> <<v % Base>>, c |-> v \div Base]

Joined(d, high) == [d |-> d \o high.d, c |-> high.c]

\* limbs lo..hi of a * k + sgn * b with carry c into limb lo, and the carry out
RECURSIVE Sweep(_, _, _, _, _, _, _)
RECURSIVE SweepHigh(_, _, _, _, _, _, _)
Sweep(a, b, sgn, k, lo, hi, c) ==
    IF lo = hi
    THEN Digit(Limb(a, lo) * k + sgn * Limb(b, lo) + c)
    ELSE SweepHigh(a, b, sgn, k, ((lo + hi) \div 2) + 1, hi,
                   Sweep(a, b, sgn, k, lo, (lo + hi) \div 2, c))

SweepHigh(a, b, sgn, k, lo, hi, low) == Joined(low.d, Sweep(a, b, sgn, k, lo, hi, low.c))

WithCarry(r) == IF r.c = 0 THEN r.d ELSE r.d \o <<r.c>>

BAdd(a, b) ==
    IF a = << >> THEN b
    ELSE IF b = << >> THEN a
    ELSE WithCarry(Sweep(a, b, 1, 1, 1, IF Len(a) > Len(b) THEN Len(a) ELSE Len(b), 0))

\* a - b for a >= b
BSub(a, b) == IF b = << >> THEN a ELSE BTrim(Sweep(a, b, -1, 1, 1, Len(a), 0).d)

\* a * k for 0 <= k < Base
BMulSmall(a, k) ==
    IF k = 0 \/ a = << >> THEN << >>
    ELSE WithCarry(Sweep(a, << >>, 1, k, 1, Len(a), 0))

\* the comparison of a and b at their highest differing limb
CmpAt(a, b, i) == IF i = 0 THEN 0 ELSE IF a[i] < b[i] THEN -1 ELSE 1

\* -1, 0 or 1 as a < b, a = b or a > b
BCmp(a, b) ==
    IF Len(a) < Len(b) THEN -1
    ELSE IF Len(a) > Len(b) THEN 1
    ELSE CmpAt(a, b, MaxOf({0} \cup {i \in 1..Len(a) : a[i] # b[i]}))

\* a * b, by the limbs of b from limb j up
RECURSIVE BMulFrom(_, _, _)
BMulFrom(a, b, j) ==
    IF j > Len(b) THEN << >>
    ELSE BAdd(BMulSmall(a, b[j]), <<0>> \o BMulFrom(a, b, j + 1))

BMul(a, b) ==
    IF a = << >> \/ b = << >> THEN << >>
    ELSE BTrim(IF Len(a) < Len(b) THEN BMulFrom(b, a, 1) ELSE BMulFrom(a, b, 1))

RECURSIVE BPow(_, _)
BPow(a, k) == IF k = 0 THEN <<1>> ELSE BMul(BPow(a, k - 1), a)

RECURSIVE BitLenInt(_)
BitLenInt(n) == IF n = 0 THEN 0 ELSE 1 + BitLenInt(n \div 2)

BBitLen(a) ==
    IF a = << >> THEN 0 ELSE LimbBits * (Len(a) - 1) + BitLenInt(a[Len(a)])

Zeros(n) == [i \in 1..n |-> 0]

\* a * 2^k
BShl(a, k) ==
    IF a = << >> THEN a
    ELSE Zeros(k \div LimbBits) \o BMulSmall(a, Pow2(k % LimbBits))

DivDigit(v, d) == [q |-> <<v \div d>>, r |-> v % d]

DivJoined(qhigh, low) == [q |-> low.q \o qhigh, r |-> low.r]

\* limbs lo..hi of the quotient of a by d, with r the remainder left by the
\* limbs above hi, and the remainder left for the limbs below lo
RECURSIVE DivSweep(_, _, _, _, _)
RECURSIVE DivSweepLow(_, _, _, _, _)
DivSweep(a, d, lo, hi, r) ==
    IF lo = hi
    THEN DivDigit(r * Base + a[lo], d)
    ELSE DivSweepLow(a, d, lo, (lo + hi) \div 2,
                     DivSweep(a, d, ((lo + hi) \div 2) + 1, hi, r))

DivSweepLow(a, d, lo, hi, high) == DivJoined(high.q, DivSweep(a, d, lo, hi, high.r))

TrimQuotient(res) == [q |-> BTrim(res.q), r |-> res.r]

\* quotient and remainder of a by d, for 0 < d < Base
BDivSmall(a, d) ==
    IF a = << >> THEN [q |-> << >>, r |-> 0]
    ELSE TrimQuotient(DivSweep(a, d, 1, Len(a), 0))

\* floor(a / 2^k)
BShr(a, k) ==
    IF k \div LimbBits >= Len(a) THEN << >>
    ELSE BDivSmall(SubSeq(a, (k \div LimbBits) + 1, Len(a)), Pow2(k % LimbBits)).q

(***************************************************************************)
(* IEEE-754 binary64.  A float is [s, m, e] with value s * m * 2^e, where  *)
(* m is zero or has exactly 53 bits.  The values of the program stay far   *)
(* from the subnormal and overflow ranges, which are not modelled.         *)
(***************************************************************************)
MantBits == 53

FZero == [s |-> 1, m |-> << >>, e |-> 0]

\* What is cut off below the mantissa, against half a unit in the last
\* place: -2 nothing, -1 less than half, 0 half, 1 more than half.
CutOff(rest, sh) == IF rest = << >> THEN -2 ELSE BCmp(rest, BShl(<<1>>, sh - 1))

\* n * 2^e with its top 53 bits m0 kept and the sh bits below cut off
CutAt(n, e, sh, m0) == [m |-> m0, e |-> e + sh, cut |-> CutOff(BSub(n, BShl(m0, sh)), sh)]

\* n * 2^e, n of L bits, as a 53-bit mantissa rounded toward zero
Cut(n, e, L) ==
    IF L <= MantBits
    THEN [m |-> BShl(n, MantBits - L), e |-> e - (MantBits - L), cut |-> -2]
    ELSE CutAt(n, e, L - MantBits, BShr(n, L - MantBits))

\* a mantissa that reached 54 bits goes back to 53
Renormalised(s, m, e) ==
    IF BBitLen(m) > MantBits THEN [s |-> s, m |-> BShr(m, 1), e |-> e + 1]
    ELSE [s |-> s, m |-> m, e |-> e]

\* Mode "RN" is round-to-nearest-even, the rounding of every Python float
\* operation; "RD" and "RU" round the magnitude down and up.
GoUp(cut, odd, mode) ==
    /\ cut # -2
    /\ \/ mode = "RU"
       \/ mode = "RN" /\ cut > 0
       \/ mode = "RN" /\ cut = 0 /\ odd

RoundCut(s, d, mode) ==
    IF GoUp(d.cut, d.m[1] % 2 = 1, mode)
    THEN Renormalised(s, BAdd(d.m, <<1>>), d.e)
    ELSE [s |-> s, m |-> d.m, e |-> d.e]

\* s * n * 2^e rounded to a float
Round(s, n, e, mode) ==
    IF n = << >> THEN FZero ELSE RoundCut(s, Cut(n, e, BBitLen(n)), mode)

\* float(i) for a Python int i
FromInt(i) == Round(IF i < 0 THEN -1 ELSE 1, BFromInt(IF i < 0 THEN -i ELSE i), 0, "RN")

\* a quotient q with remainder r, as q followed by a sticky bit
Sticky(dm) == BAdd(BShl(dm.q, 1), IF dm.r = 0 THEN << >> ELSE <<1>>)

\* x / d for a float x and a Python int 0 < d < Base, correctly rounded: the
\* quotient is taken with more than 53 bits and a sticky bit.
FDivInt(x, d) ==
    IF x.m = << >> THEN FZero
    ELSE Round(x.s, Sticky(BDivSmall(BShl(x.m, MantBits + LimbBits + 2), d)),
               x.e - (MantBits + LimbBits + 2) - 1, "RN")

\* the float nearest to num / den: a decimal literal such as 0.15 is
\* Literal(15, 100)
Literal(num, den) == FDivInt(FromInt(num), den)

FMul(x, y) ==
    IF x.m = << >> \/ y.m = << >> THEN FZero
    ELSE Round(x.s * y.s, BMul(x.m, y.m), x.e + y.e, "RN")

FNeg(x) == IF x.m = << >> THEN x ELSE [x EXCEPT !.s = -x.s]

\* xs * xm * 2^e + ys * ym * 2^e, c the comparison of xm and ym
AddAligned(xs, xm, ys, ym, e, c) ==
    Round(IF xs = ys \/ c >= 0 THEN xs ELSE ys,
          IF xs = ys THEN BAdd(xm, ym) ELSE IF c >= 0 THEN BSub(xm, ym) ELSE BSub(ym, xm),
          e, "RN")

AddAt(x, y, e) ==
    AddAligned(x.s, BShl(x.m, x.e - e), y.s, BShl(y.m, y.e - e), e,
               BCmp(BShl(x.m, x.e - e), BShl(y.m, y.e - e)))

FAdd(x, y) ==
    IF x.m = << >> THEN y
    ELSE IF y.m = << >> THEN x
    ELSE AddAt(x, y, IF x.e < y.e THEN x.e ELSE y.e)

FSub(x, y) == FAdd(x, FNeg(y))

\* -1, 0 or 1 as |x| < |y|, |x| = |y| or |x| > |y|
MagCmp(x, y) ==
    IF x.m = << >> THEN (IF y.m = << >> THEN 0 ELSE -1)
    ELSE IF y.m = << >> THEN 1
    ELSE IF x.e # y.e THEN (IF x.e < y.e THEN -1 ELSE 1)
    ELSE BCmp(x.m, y.m)

\* -1, 0 or 1 as x < y, x = y or x > y
FCmp(x, y) ==
    IF x.s # y.s /\ (x.m # << >> \/ y.m # << >>)
    THEN (IF x.m = << >> THEN -y.s ELSE x.s)
    ELSE x.s * MagCmp(x, y)

\* int(x) for a float x >= 0: truncation toward zero
FTrunc(x) ==
    IF x.m = << >> THEN 0
    ELSE IF x.e >= 0 THEN BToInt(BShl(x.m, x.e))
    ELSE BToInt(BShr(x.m, -x.e))

\* x ** k for a float x > 0 and an int k >= 1.  CPython calls the C library's
\* pow(), which is accurate to within one unit in the last place but which
\* the C standard does not require to round correctly: mode says how the
\* build's pow() rounds the exact power ("RN" correctly, "RD" always down,
\* "RU" always up).
FPow(x, k, mode) == Round(1, BPow(x.m, k), k * x.e, mode)

(***************************************************************************)
(* State.  Only quiz_index, correct and answers live in st.session_state;  *)
(* the other variables are widget values and what one execution of the     *)
(* script computes and shows.                                              *)
(***************************************************************************)
VARIABLES
    quiz_index,             \* st.session_state.quiz_index
    correct,                \* st.session_state.correct
    answers,                \* st.session_state.answers
    user_choice,            \* value of the radio widget of the question shown
    completed,              \* the last execution rendered the completion section
    score_pct,              \* score shown in the completion section
    level,                  \* badge shown in the completion section
    badge_score,            \* a score handed to the badge selection on its own
    badge_level,            \* the badge selected for badge_score
    monthly_sip,            \* tab1 number input
    years,                  \* tab1 slider
    pow_rounding,           \* how the C library's pow() rounds in this build
    sip_pc,                 \* position of the tab1 computation
    sip_i,                  \* loop variable i of the tab1 loop
    wealth,
    total_wealth_progress,
    invested_progress,
    gain,
    monthly_income,         \* tab2 number input
    template_choice,        \* tab2 select box
    custom_amounts,         \* tab2 number inputs of the Custom template
    float_sum,              \* how sum() adds floats in this build
    budget_pc,              \* position of the tab2 computation
    budget,                 \* the budget dict, as a sequence of <<name, amount>>
    total_allocated,
    remaining               \* monthly_income - total_allocated

quizVars == <<quiz_index, correct, answers, user_choice, completed, score_pct, level>>

badgeVars == <<badge_score, badge_level>>

sipVars == <<monthly_sip, years, pow_rounding, sip_pc, sip_i, wealth,
             total_wealth_progress, invested_progress, gain>>

budgetVars == <<monthly_income, template_choice, custom_amounts, float_sum, budget_pc,
                budget, total_allocated, remaining>>

vars == <<quizVars, badgeVars, sipVars, budgetVars>>

(***************************************************************************)
(* Bounds of the model.                                                    *)
(***************************************************************************)
\* Submit clicks explored: the answers list is not allowed to grow past this
MaxAnswers == 12

\* scores handed to the badge selection: 0..MaxScore
MaxScore == 100

\* slider positions explored: 1..MaxYears
MaxYears == 2

\* SIP amounts explored: the minimum, MaxSipOffset above it, and the default
MaxSipOffset == 1

\* incomes explored: the minimum, up to MaxIncomeOffset above it, and the default
MaxIncomeOffset == 24

(***************************************************************************)
(* Values that stand for "nothing computed or shown".                      *)
(***************************************************************************)
NoScore == -1

NoLevel == "none"

NoFloat == [s |-> 0, m |-> << >>, e |-> 0]

(***************************************************************************)
(* TAB 3: the quiz.                                                        *)
(***************************************************************************)
\* The question bank, in the order of the source.  Strings are ASCII here:
\* the typographic apostrophe of question 8 is written ' and the badges are
\* written without their emoji.
questions == <<
    [question |-> "What is a credit score primarily used for?",
     options |-> <<"Tracking your income", "Approving loans and credit",
                   "Paying taxes", "Budgeting monthly">>,
     answer |-> "Approving loans and credit",
     explanation |-> "A credit score helps banks determine your creditworthiness when applying for loans or credit cards."],
    [question |-> "Which one offers higher potential returns?",
     options |-> <<"Fixed Deposit", "Mutual Fund">>,
     answer |-> "Mutual Fund",
     explanation |-> "Mutual funds invest in market-linked instruments, which can give higher returns than fixed deposits over time."],
    [question |-> "What is 'inflation'?",
     options |-> <<"Decrease in prices", "Rise in purchasing power",
                   "Increase in prices over time", "Tax increase">>,
     answer |-> "Increase in prices over time",
     explanation |-> "Inflation is the general rise in the price of goods and services, reducing the value of money over time."],
    [question |-> "Which is a liability?",
     options |-> <<"Loan", "Fixed Deposit", "Mutual Fund", "Salary">>,
     answer |-> "Loan",
     explanation |-> "A loan is money you owe - a liability on your personal balance sheet."],
    [question |-> "Which investment is considered the safest?",
     options |-> <<"Stock Market", "Mutual Fund", "Fixed Deposit", "Crypto">>,
     answer |-> "Fixed Deposit",
     explanation |-> "FDs offer guaranteed returns and are not affected by market fluctuations."],
    [question |-> "What is the 50/30/20 rule?",
     options |-> <<"50% income for rent, 30% for food, 20% for fun",
                   "A loan repayment rule",
                   "A budgeting rule: 50% needs, 30% wants, 20% savings",
                   "A taxation rule">>,
     answer |-> "A budgeting rule: 50% needs, 30% wants, 20% savings",
     explanation |-> "The 50/30/20 rule is a popular budgeting guideline for managing personal finances."],
    [question |-> "What does SIP stand for?",
     options |-> <<"Single Investment Plan", "Systematic Investment Plan",
                   "Secure Investment Product", "Saving Increment Program">>,
     answer |-> "Systematic Investment Plan",
     explanation |-> "SIP allows you to invest a fixed amount regularly in mutual funds - harnessing compounding and consistency."],
    [question |-> "What's the safest way to build an emergency fund?",
     options |-> <<"In stocks", "In savings account or FD", "In crypto",
                   "Via credit card">>,
     answer |-> "In savings account or FD",
     explanation |-> "Emergency funds should be accessible and safe - savings account or fixed deposits are ideal."],
    [question |-> "Which of these is an asset?",
     options |-> <<"Credit card debt", "Student loan", "Salary",
                   "Mutual fund investment">>,
     answer |-> "Mutual fund investment",
     explanation |-> "Assets are things you own that have value. Mutual funds are investments - and assets."],
    [question |-> "Why is diversification important in investing?",
     options |-> <<"To focus returns", "To reduce tax", "To reduce risk",
                   "To increase spending">>,
     answer |-> "To reduce risk",
     explanation |-> "Diversifying across assets reduces the impact if one investment performs poorly."]
>>

\* q = questions[st.session_state.quiz_index]; Python indexes from 0
CurrentQuestion == questions[quiz_index + 1]

\* st.radio shows the first option of a question when the question is first shown
RadioDefault(q) == q["options"][1]

\* The options the user is let to pick in the model: the right answer of the
\* question and its first wrong option.
Choices(q) ==
    {q["answer"], q["options"][IF q["options"][1] = q["answer"] THEN 2 ELSE 1]}

\* IsCorrect with the comparison inverted
IsCorrect_Inverted(choice, q) == choice # q["answer"]

\* user_choice == q["answer"]
IsCorrect(choice, q) == choice = q["answer"]

\* AnswerEntry with the chosen option and the right answer swapped
AnswerEntry_Swapped(q, choice) == <<q["question"], q["answer"], choice, q["explanation"]>>

\* the tuple appended to st.session_state.answers
AnswerEntry(q, choice) == <<q["question"], choice, q["answer"], q["explanation"]>>

\* int((st.session_state.correct / len(questions)) * 100)
ScorePct(c) == FTrunc(FMul(FDivInt(FromInt(c), Len(questions)), FromInt(100)))

\* Level with > where the source has >=
Level_Strict(score) ==
    IF score > 90 THEN "Money Master"
    ELSE IF score > 70 THEN "Growing Financier"
    ELSE IF score > 50 THEN "Budget Beginner"
    ELSE "Just Getting Started"

\* the if/elif chain that selects the badge
Level(score) ==
    IF score >= 90 THEN "Money Master"
    ELSE IF score >= 70 THEN "Growing Financier"
    ELSE IF score >= 50 THEN "Budget Beginner"
    ELSE "Just Getting Started"

\* What an execution that shows only the question leaves on the page.
ShowQuestion(choice) ==
    /\ user_choice' = choice
    /\ completed' = FALSE
    /\ score_pct' = NoScore
    /\ level' = NoLevel

\* One execution of the tab3 code.  choice is the value of the radio widget,
\* submit and restart say whether st.button returns True for "Submit Answer"
\* and for "Restart Quiz".  st.experimental_rerun() abandons the execution
\* and starts another one in which no button is pressed; a question shown
\* for the first time has its radio widget at the default.
QuizRun(choice, submit, restart) ==
    LET q == CurrentQuestion
        answers1 == Append(answers, AnswerEntry(q, choice))
        correct1 == IF IsCorrect(choice, q) THEN correct + 1 ELSE correct
    IN  IF submit
        THEN IF quiz_index < Len(questions) - 1
             THEN /\ answers' = answers1
                  /\ correct' = correct1
                  /\ quiz_index' = quiz_index + 1
                  /\ ShowQuestion(RadioDefault(questions[quiz_index + 2]))
             ELSE IF restart
                  THEN /\ quiz_index' = 0
                       /\ correct' = 0
                       /\ answers' = << >>
                       /\ ShowQuestion(RadioDefault(questions[1]))
                  ELSE /\ answers' = answers1
                       /\ correct' = correct1
                       /\ quiz_index' = quiz_index
                       /\ user_choice' = choice
                       /\ completed' = TRUE
                       /\ score_pct' = ScorePct(correct1)
                       /\ level' = Level(ScorePct(correct1))
        ELSE /\ UNCHANGED <<quiz_index, correct, answers>>
             /\ ShowQuestion(choice)

\* if 'quiz_index' not in st.session_state: the first execution of a session
QuizInit ==
    /\ quiz_index = 0
    /\ correct = 0
    /\ answers = << >>
    /\ user_choice = RadioDefault(questions[1])
    /\ completed = FALSE
    /\ score_pct = NoScore
    /\ level = NoLevel

\* The user picks another option of the radio widget: the script runs with no
\* button pressed.
SelectOption(c) ==
    /\ c \in Choices(CurrentQuestion)
    /\ c # user_choice
    /\ QuizRun(c, FALSE, FALSE)
    /\ UNCHANGED <<badgeVars, sipVars, budgetVars>>

\* The user clicks "Submit Answer", which every execution renders.
SubmitAnswer ==
    /\ Len(answers) < MaxAnswers
    /\ QuizRun(user_choice, TRUE, FALSE)
    /\ UNCHANGED <<badgeVars, sipVars, budgetVars>>

\* The user clicks "Restart Quiz", which is on the page only when the last
\* execution rendered the completion section.  A button returns True only in
\* the execution its click starts, so in that execution "Submit Answer"
\* returns False.
ClickRestart ==
    /\ completed
    /\ QuizRun(user_choice, FALSE, TRUE)
    /\ UNCHANGED <<badgeVars, sipVars, budgetVars>>

\* every string some radio widget of the quiz can hold
AllChoices == UNION {Choices(questions[k]) : k \in 1..Len(questions)}

(***************************************************************************)
(* The badge selection on its own, for every score.                        *)
(***************************************************************************)
BadgeInit ==
    /\ badge_score \in 0..MaxScore
    /\ badge_level = NoLevel

BadgeIdle ==
    /\ badge_score = 0
    /\ badge_level = NoLevel

SelectBadge ==
    /\ badge_level = NoLevel
    /\ badge_level' = Level(badge_score)
    /\ UNCHANGED <<badge_score, quizVars, sipVars, budgetVars>>

(***************************************************************************)
(* TAB 1: the SIP calculator.                                              *)
(***************************************************************************)
MinSip == 500

DefaultSip == 5000

DefaultYears == 10

\* st.number_input takes any integer from min_value up
SipAmounts == {MinSip + k : k \in 0..MaxSipOffset} \cup {DefaultSip}

PowRoundings == {"RN", "RD", "RU"}

annual_return == Literal(15, 100)

months == years * 12

monthly_return == FDivInt(annual_return, 12)

invested_amount == monthly_sip * months

\* 1 + monthly_return
GrowthFactor == FAdd(FromInt(1), monthly_return)

\* TermExponent with every contribution compounded for one month less
TermExponent_MonthLess(n, i) == n - i - 1

\* the exponent of the term added in iteration i of a loop of n iterations
TermExponent(n, i) == n - i

\* monthly_sip * ((1 + monthly_return) ** (months - i))
Term(i) == FMul(FromInt(monthly_sip), FPow(GrowthFactor, TermExponent(months, i), pow_rounding))

\* InvestedPoint without the + 1
InvestedPoint_OffByOne(i) == monthly_sip * i

\* the point appended to invested_progress in iteration i
InvestedPoint(i) == monthly_sip * (i + 1)

\* x = list(range(1, months+1)) of both chart traces
ChartX == [k \in 1..months |-> k]

SipInit ==
    /\ monthly_sip \in SipAmounts
    /\ years \in 1..MaxYears
    /\ pow_rounding \in PowRoundings
    /\ sip_pc = "loop"
    /\ sip_i = 0
    /\ wealth = FZero
    /\ total_wealth_progress = << >>
    /\ invested_progress = << >>
    /\ gain = NoFloat

SipIdle ==
    /\ monthly_sip = DefaultSip
    /\ years = DefaultYears
    /\ pow_rounding = "RN"
    /\ sip_pc = "idle"
    /\ sip_i = 0
    /\ wealth = FZero
    /\ total_wealth_progress = << >>
    /\ invested_progress = << >>
    /\ gain = NoFloat

\* one iteration of: for i in range(months)
SipLoopStep ==
    /\ sip_pc = "loop"
    /\ sip_i < months
    /\ wealth' = FAdd(wealth, Term(sip_i))
    /\ total_wealth_progress' = Append(total_wealth_progress, wealth')
    /\ invested_progress' = Append(invested_progress, InvestedPoint(sip_i))
    /\ sip_i' = sip_i + 1
    /\ UNCHANGED <<monthly_sip, years, pow_rounding, sip_pc, gain>>
    /\ UNCHANGED <<quizVars, badgeVars, budgetVars>>

\* the loop is over: gain = wealth - invested_amount
SipFinish ==
    /\ sip_pc = "loop"
    /\ sip_i = months
    /\ gain' = FSub(wealth, FromInt(invested_amount))
    /\ sip_pc' = "done"
    /\ UNCHANGED <<monthly_sip, years, pow_rounding, sip_i, wealth,
                   total_wealth_progress, invested_progress>>
    /\ UNCHANGED <<quizVars, badgeVars, budgetVars>>

(***************************************************************************)
(* TAB 2: the budgeting tool.                                              *)
(***************************************************************************)
MinIncome == 1000

DefaultIncome == 50000

CustomStep == 100

\* st.number_input takes any integer from min_value up
Incomes == {MinIncome + k : k \in 0..MaxIncomeOffset} \cup {DefaultIncome}

Templates == {"50/30/20 Rule", "Basic Essentials", "Custom"}

\* the default of the "Comma-separated categories" text area
CustomCategories == <<"Rent", "Food", "Savings", "Entertainment">>

\* the amounts the user is let to enter for the categories of the Custom template
CustomInputs == [1..Len(CustomCategories) -> {0, CustomStep}]

NoCustomInputs == [k \in 1..Len(CustomCategories) |-> 0]

\* monthly_income * 0.30 is Share(monthly_income, 30): the literal is the
\* float nearest to 0.30 and the product is rounded again
Share(income, pct) == FMul(FromInt(income), Literal(pct, 100))

\* the budget dict of the chosen template; a dict keeps insertion order
TemplateBudget(income, choice, amounts) ==
    IF choice = "50/30/20 Rule"
    THEN << <<"Needs (50%)", Share(income, 50)>>,
            <<"Wants (30%)", Share(income, 30)>>,
            <<"Savings (20%)", Share(income, 20)>> >>
    ELSE IF choice = "Basic Essentials"
    THEN << <<"Rent & Utilities", Share(income, 30)>>,
            <<"Food", Share(income, 20)>>,
            <<"Transport", Share(income, 10)>>,
            <<"Savings", Share(income, 25)>>,
            <<"Entertainment", Share(income, 10)>>,
            <<"Misc", Share(income, 5)>> >>
    ELSE [k \in 1..Len(CustomCategories) |-> <<CustomCategories[k], FromInt(amounts[k])>>]

\* list(budget.values())
Values(b) == [k \in 1..Len(b) |-> b[k][2]]

\* sum() up to CPython 3.11: the floats are added from left to right
RECURSIVE PlainSum(_, _)
PlainSum(xs, acc) ==
    IF xs = << >> THEN acc ELSE PlainSum(Tail(xs), FAdd(acc, Head(xs)))

\* sum() from CPython 3.12 on: Neumaier's compensated summation, r the
\* running sum and c the running compensation:
\*   t = r + x
\*   if fabs(r) >= fabs(x): c += (r - t) + x   else: c += (x - t) + r
\*   r = t
\* and at the end r + c when c is not zero.
Correction(r, x, t, rIsLarger) ==
    FAdd(FSub(IF rIsLarger THEN r ELSE x, t), IF rIsLarger THEN x ELSE r)

RECURSIVE CompensatedSum(_, _, _)
RECURSIVE CompensatedStep(_, _, _, _, _)
CompensatedSum(xs, r, c) ==
    IF xs = << >> THEN (IF c.m # << >> THEN FAdd(r, c) ELSE r)
    ELSE CompensatedStep(Tail(xs), r, c, Head(xs), FAdd(r, Head(xs)))

CompensatedStep(rest, r, c, x, t) ==
    CompensatedSum(rest, t, FAdd(c, Correction(r, x, t, MagCmp(r, x) >= 0)))

SumAlgorithms == {"plain", "compensated"}

\* sum(budget.values()); the amounts of the Custom template are ints, whose
\* sum is exact either way
Sum(xs, algorithm) ==
    IF algorithm = "plain" THEN PlainSum(xs, FZero) ELSE CompensatedSum(xs, FZero, FZero)

BudgetInit ==
    /\ monthly_income \in Incomes
    /\ template_choice \in Templates
    /\ custom_amounts \in (IF template_choice = "Custom" THEN CustomInputs ELSE {NoCustomInputs})
    /\ float_sum \in SumAlgorithms
    /\ budget_pc = "template"
    /\ budget = << >>
    /\ total_allocated = NoFloat
    /\ remaining = NoFloat

BudgetIdle ==
    /\ monthly_income = DefaultIncome
    /\ template_choice = "50/30/20 Rule"
    /\ custom_amounts = NoCustomInputs
    /\ float_sum = "plain"
    /\ budget_pc = "idle"
    /\ budget = << >>
    /\ total_allocated = NoFloat
    /\ remaining = NoFloat

\* the if/elif/else that fills the budget dict
BudgetAllocate ==
    /\ budget_pc = "template"
    /\ budget' = TemplateBudget(monthly_income, template_choice, custom_amounts)
    /\ budget_pc' = "allocated"
    /\ UNCHANGED <<monthly_income, template_choice, custom_amounts, float_sum,
                   total_allocated, remaining>>
    /\ UNCHANGED <<quizVars, badgeVars, sipVars>>

\* total_allocated = sum(budget.values()) and the remaining balance shown
BudgetTotal ==
    /\ budget_pc = "allocated"
    /\ total_allocated' = Sum(Values(budget), float_sum)
    /\ remaining' = FSub(FromInt(monthly_income), total_allocated')
    /\ budget_pc' = "done"
    /\ UNCHANGED <<monthly_income, template_choice, custom_amounts, float_sum, budget>>
    /\ UNCHANGED <<quizVars, badgeVars, sipVars>>

(***************************************************************************)
(* Specifications, one for each part of the script.  The tabs share no     *)
(* state, so each is explored with the others at rest.                     *)
(***************************************************************************)
InitQuiz == QuizInit /\ BadgeIdle /\ SipIdle /\ BudgetIdle

NextQuiz ==
    \/ \E c \in AllChoices : SelectOption(c)
    \/ SubmitAnswer
    \/ ClickRestart

SpecQuiz == InitQuiz /\ [][NextQuiz]_vars

InitBadge == QuizInit /\ BadgeInit /\ SipIdle /\ BudgetIdle

NextBadge == SelectBadge

SpecBadge == InitBadge /\ [][NextBadge]_vars

InitSip == QuizInit /\ BadgeIdle /\ SipInit /\ BudgetIdle

NextSip ==
    \/ SipLoopStep
    \/ SipFinish

SpecSip == InitSip /\ [][NextSip]_vars

InitBudget == QuizInit /\ BadgeIdle /\ SipIdle /\ BudgetInit

NextBudget ==
    \/ BudgetAllocate
    \/ BudgetTotal

SpecBudget == InitBudget /\ [][NextBudget]_vars

(***************************************************************************)
(* Properties of the quiz, checked under SpecQuiz.                         *)
(***************************************************************************)
N == Len(questions)

\* the entries of a log whose chosen option is the right answer of the
\* bank question at the entry's position
MatchingAnswers(log) ==
    Cardinality({k \in 1..Len(log) : log[k][2] = questions[k]["answer"]})

\* C1: the N-th submission after the start of the session completes the
\* quiz; its k-th log entry is for question k, the correct count is the
\* number of submissions that chose the right answer, the score is that
\* count as a percentage of N, and 7 right answers out of 10 give score 70
\* and the second badge.
C1_FullRun ==
    [][(Len(answers) = N - 1 /\ Len(answers') = N)
        => /\ completed'
           /\ \A k \in 1..N : answers'[k][1] = questions[k]["question"]
           /\ correct' = MatchingAnswers(answers')
           /\ score_pct' * N = 100 * MatchingAnswers(answers')
           /\ (MatchingAnswers(answers') = 7
                 => score_pct' = 70 /\ level' = "Growing Financier")]_vars

C1_Witness ==
    /\ completed
    /\ Len(answers) = N
    /\ MatchingAnswers(answers) = 7
    /\ score_pct = 70
    /\ level = "Growing Financier"

\* the final answer has been submitted
Completed == Len(answers) >= N

\* C2: a click on Restart Quiz, which is offered once the quiz is
\* completed, takes the session back to question 0 with correct = 0 and an
\* empty answers log.
C2_RestartResets ==
    [][ClickRestart
        => /\ quiz_index' = 0
           /\ correct' = 0
           /\ answers' = << >>
           /\ ~completed']_vars

\* C3: once the final answer has been submitted, a further submission
\* changes neither quiz_index nor correct nor the answers log.
C3_SubmitRejectedWhenCompleted ==
    [][(Completed /\ SubmitAnswer) => UNCHANGED <<quiz_index, correct, answers>>]_vars

\* 100 * c / n rounded to the nearest integer
RoundedPercent(c, n) == (200 * c + n) \div (2 * n)

\* C4: whenever the completion section shows a score, the score is an
\* integer in 0..100 and equals round(100 * correct / N).
C4_ScoreRange ==
    completed => (score_pct \in 0..100 /\ score_pct = RoundedPercent(correct, N))

\* C8: in every state 0 <= quiz_index < N, 0 <= correct <= quiz_index + 1,
\* and the answers log has at most N entries, the k-th for bank question k.
C8_SessionInvariant ==
    /\ quiz_index \in 0..(N - 1)
    /\ correct \in 0..(quiz_index + 1)
    /\ Len(answers) <= N
    /\ \A k \in 1..Len(answers) : k <= N => answers[k][1] = questions[k]["question"]

\* C9: a submission at index i appends exactly the entry (question i, the
\* chosen option, answer i, explanation i) to the log, adds 1 to correct if
\* and only if the chosen option is answer i, and then moves to index i + 1,
\* or, at the last index, stays there and shows the completion section.
C9_SubmitEffect ==
    [][SubmitAnswer
        => /\ answers' = Append(answers, <<questions[quiz_index + 1]["question"],
                                           user_choice,
                                           questions[quiz_index + 1]["answer"],
                                           questions[quiz_index + 1]["explanation"]>>)
           /\ (user_choice = questions[quiz_index + 1]["answer"] => correct' = correct + 1)
           /\ (user_choice # questions[quiz_index + 1]["answer"] => correct' = correct)
           /\ (quiz_index < N - 1 => quiz_index' = quiz_index + 1 /\ ~completed')
           /\ (quiz_index = N - 1 => quiz_index' = quiz_index /\ completed')]_vars

C9_Witness ==
    /\ quiz_index = 2
    /\ Len(answers) = 2
    /\ correct = 1
    /\ answers[1][2] = questions[1]["answer"]
    /\ answers[2][2] # questions[2]["answer"]

(***************************************************************************)
(* The badge, checked under SpecBadge.                                     *)
(***************************************************************************)
\* C5: the badge depends on the score alone and has four tiers: 90 and
\* above the first, 70 to 89 the second, 50 to 69 the third, below 50 the
\* last.
C5_BadgeTiers ==
    badge_level # NoLevel
        => /\ (badge_score >= 90 => badge_level = "Money Master")
           /\ (badge_score >= 70 /\ badge_score < 90 => badge_level = "Growing Financier")
           /\ (badge_score >= 50 /\ badge_score < 70 => badge_level = "Budget Beginner")
           /\ (badge_score < 50 => badge_level = "Just Getting Started")

C5_Witness ==
    \/ badge_score = 90 /\ badge_level = "Money Master"
    \/ badge_score = 50 /\ badge_level = "Budget Beginner"

(***************************************************************************)
(* Properties of the SIP calculator, checked under SpecSip.                *)
(***************************************************************************)
\* The formula shown to the user, FV = P * [(1 + r)^n - 1] * (1 + r) / r, for
\* the rate r = a / b, as the exact fraction
\*     P * ((a + b)^n - b^n) * (a + b)  /  (b^n * a)
FVNum(P, a, b, n) ==
    BMul(BMulSmall(BSub(BPow(BFromInt(a + b), n), BPow(BFromInt(b), n)), a + b),
         BFromInt(P))

FVDen(a, b, n) == BMulSmall(BPow(BFromInt(b), n), a)

\* the monthly rate 0.15 / 12 is 15 / 1200
RateNum == 15

RateDen == 100 * 12

\* x * den and num, for a float x >= 0, brought to a common power of two
Scaled(x, den) == BShl(BMul(den, x.m), IF x.e > 0 THEN x.e ELSE 0)

ScaledNum(x, num) == BShl(num, IF x.e < 0 THEN -x.e ELSE 0)

AbsDiff(u, v) == IF BCmp(u, v) >= 0 THEN BSub(u, v) ELSE BSub(v, u)

\* the float x is exactly num / den
ExactlyRatio(x, num, den) == Scaled(x, den) = ScaledNum(x, num)

\* the float x is num / den to within a relative error of 2^-40
NearlyRatio(x, num, den) ==
    BCmp(BShl(AbsDiff(Scaled(x, den), ScaledNum(x, num)), 40), ScaledNum(x, num)) <= 0

\* the float g is exactly the float x minus the integer k, for x >= k >= 0
ExactlyMinus(g, x, k) ==
    /\ g.s = 1
    /\ BAdd(BShl(g.m, g.e - (IF g.e < x.e THEN g.e ELSE x.e)),
            BShl(BFromInt(k), -(IF g.e < x.e THEN g.e ELSE x.e)))
         = BShl(x.m, x.e - (IF g.e < x.e THEN g.e ELSE x.e))

C10_Series ==
    /\ Len(total_wealth_progress) = sip_i
    /\ Len(invested_progress) = sip_i
    /\ sip_pc = "done"
         => /\ Len(total_wealth_progress) = months
            /\ Len(invested_progress) = months
            /\ Len(ChartX) = months
            /\ \A m \in 1..months : ChartX[m] = m
    /\ \A m \in 1..Len(invested_progress) : invested_progress[m] = monthly_sip * m
    /\ \A m \in 1..(Len(invested_progress) - 1) :
          invested_progress[m] <= invested_progress[m + 1]
    /\ \A m \in 1..(Len(total_wealth_progress) - 1) :
          FCmp(total_wealth_progress[m], total_wealth_progress[m + 1]) <= 0

C10_Witness ==
    /\ sip_pc = "done"
    /\ years = 1
    /\ pow_rounding = "RD"
    /\ Len(invested_progress) = 12
    /\ invested_progress[12] = 12 * monthly_sip

(***************************************************************************)
(* The budget templates, checked under SpecBudget.                         *)
(***************************************************************************)
\* the percentages of the fixed templates, in the order of their categories
TemplatePercents(choice) ==
    IF choice = "50/30/20 Rule" THEN <<50, 30, 20>> ELSE <<30, 20, 10, 25, 10, 5>>

\* C7: with a fixed template every category amount is its fraction of the
\* income (as a float, up to rounding), the amounts sum to the income and
\* the remaining balance is 0; 50/30/20 of 50000 is 25000, 15000 and 10000.
C7_TemplateSplit ==
    (budget_pc = "done" /\ template_choice # "Custom")
        => /\ Len(budget) = Len(TemplatePercents(template_choice))
           /\ \A k \in 1..Len(budget) :
                 NearlyRatio(budget[k][2],
                             BFromInt(monthly_income * TemplatePercents(template_choice)[k]),
                             BFromInt(100))
           /\ total_allocated = FromInt(monthly_income)
           /\ remaining = FZero
           /\ (monthly_income = 50000 /\ template_choice = "50/30/20 Rule"
                 => Values(budget) = <<FromInt(25000), FromInt(15000), FromInt(10000)>>)

====
